---- MODULE Spec2Model ----
(***************************************************************************)
(* A model of the MemoryModel renderer of memory-models-rough              *)
(* (src/src/index.js): the configuration built by the constructor, the     *)
(* surface (the children of this.svg, in append order) and the draw        *)
(* methods that append rectangle and text nodes to it.                     *)
(*                                                                         *)
(* Lengths are kept in units of 1/8 pixel (U), so that every division of   *)
(* the source (/2, /4, /8, *1.5) is exact on whole-pixel configurations.   *)
(***************************************************************************)
EXTENDS Integers, Sequences, FiniteSets, TLC

VARIABLES config, svg, log, calls, raised, pending, options, fs, console

vars == <<config, svg, log, calls, raised, pending, options, fs, console>>

----------------------------------------------------------------------------
(* Bounds of the model *)

\* Most elements of a list, tuple or set drawn by a direct call.
MaxLen == 3

\* Most key/value pairs of a dict and attributes of a class in a direct call.
MaxPairs == 2

\* Most successive direct calls of drawPrimitive on one surface.
MaxPrimCalls == 2

\* Most descriptors handed to drawAll on one surface, over all its calls.
MaxDrawn == 2

\* Most calls a client makes in one session with a model.
MaxCalls == 2

----------------------------------------------------------------------------
(* JavaScript values: a tag, a number, a string, and the elements of an    *)
(* array or the (key, value) pairs of an object in the order the object     *)
(* literal or the JSON text gives them.                                     *)

Num(n) == [t |-> "num", n |-> n, s |-> "", a |-> <<>>]
Str(s) == [t |-> "str", n |-> 0, s |-> s, a |-> <<>>]
Bool(b) == [t |-> "bool", n |-> IF b THEN 1 ELSE 0, s |-> "", a |-> <<>>]
Null == [t |-> "null", n |-> 0, s |-> "", a |-> <<>>]
Undef == [t |-> "undef", n |-> 0, s |-> "", a |-> <<>>]
Arr(elems) == [t |-> "arr", n |-> 0, s |-> "", a |-> elems]
Obj(pairs) == [t |-> "obj", n |-> 0, s |-> "", a |-> pairs]

Max(a, b) == IF a >= b THEN a ELSE b

Digit(d) ==
    CASE d = 0 -> "0" [] d = 1 -> "1" [] d = 2 -> "2" [] d = 3 -> "3"
      [] d = 4 -> "4" [] d = 5 -> "5" [] d = 6 -> "6" [] d = 7 -> "7"
      [] d = 8 -> "8" [] d = 9 -> "9"

RECURSIVE NatToString(_)
NatToString(n) ==
    IF n < 10 THEN Digit(n) ELSE NatToString(n \div 10) \o Digit(n % 10)

\* Number.prototype.toString on an integer.
NumToString(n) == IF n < 0 THEN "-" \o NatToString(0 - n) ELSE NatToString(n)

\* ToBoolean: the truthiness used by `if (v)`, `v ? a : b` and `v || d`.
Truthy(v) ==
    CASE v.t = "bool" -> v.n = 1
      [] v.t = "num" -> v.n # 0
      [] v.t = "str" -> v.s # ""
      [] v.t \in {"null", "undef"} -> FALSE
      [] OTHER -> TRUE

\* String(v) of a value that is no array.
ScalarToString(v) ==
    CASE v.t = "num" -> NumToString(v.n)
      [] v.t = "str" -> v.s
      [] v.t = "bool" -> IF v.n = 1 THEN "true" ELSE "false"
      [] v.t = "null" -> "null"
      [] v.t = "undef" -> "undefined"
      [] OTHER -> "[object Object]"

\* Array.prototype.join(","): null and undefined elements give "".
RECURSIVE JoinElems(_)
JoinElems(elems) ==
    IF elems = <<>> THEN ""
    ELSE LET e == Head(elems)
             piece == IF e.t \in {"null", "undef"} THEN "" ELSE ScalarToString(e)
         IN IF Len(elems) = 1 THEN piece
            ELSE piece \o "," \o JoinElems(Tail(elems))

\* String(v), also what a template literal `${v}` gives.
ToStr(v) == IF v.t = "arr" THEN JoinElems(v.a) ELSE ScalarToString(v)

\* JSON.stringify of a value that is neither array nor object.
ScalarToJSON(v) ==
    CASE v.t = "num" -> NumToString(v.n)
      [] v.t = "str" -> "\"" \o v.s \o "\""
      [] v.t = "bool" -> IF v.n = 1 THEN "true" ELSE "false"
      [] OTHER -> "null"

RECURSIVE JSONElems(_)
JSONElems(elems) ==
    IF elems = <<>> THEN ""
    ELSE IF Len(elems) = 1 THEN ScalarToJSON(Head(elems))
    ELSE ScalarToJSON(Head(elems)) \o "," \o JSONElems(Tail(elems))

\* The array index a property name stands for, or -1 for any other name.
KeyIndex(k) == CASE k = "1" -> 1 [] k = "123456" -> 123456 [] OTHER -> -1

\* The (name, value) pairs by ascending array index of the name.
RECURSIVE Ascending(_)
Ascending(pairs) ==
    IF pairs = <<>> THEN <<>>
    ELSE LET m == CHOOSE i \in 1..Len(pairs) :
                    \A j \in 1..Len(pairs) :
                        KeyIndex(pairs[i][1]) <= KeyIndex(pairs[j][1])
         IN << pairs[m] >>
              \o Ascending(SubSeq(pairs, 1, m - 1) \o SubSeq(pairs, m + 1, Len(pairs)))

\* The order in which for-in, Object.keys and JSON.stringify go through the
\* properties of an object: the array indices ascending, then the other
\* names in the order they were created.
OwnPropertyOrder(pairs) ==
    Ascending(SelectSeq(pairs, LAMBDA p : KeyIndex(p[1]) >= 0))
      \o SelectSeq(pairs, LAMBDA p : KeyIndex(p[1]) < 0)

RECURSIVE JSONPairs(_)
JSONPairs(pairs) ==
    IF pairs = <<>> THEN ""
    ELSE LET p == Head(pairs)
             piece == "\"" \o p[1] \o "\":" \o ScalarToJSON(p[2])
         IN IF Len(pairs) = 1 THEN piece
            ELSE piece \o "," \o JSONPairs(Tail(pairs))

\* JSON.stringify(v) for a value other than undefined.
JSONStringify(v) ==
    CASE v.t = "arr" -> "[" \o JSONElems(v.a) \o "]"
      [] v.t = "obj" -> "{" \o JSONPairs(OwnPropertyOrder(v.a)) \o "}"
      [] OTHER -> ScalarToJSON(v)

----------------------------------------------------------------------------
(* Configuration *)

\* Units per pixel.
U == 8

Px(n) == n * U

\* Pixel width of one character in getTextLength.
CharWidth == 12

DefaultConfig ==
    [rect_style |-> "stroke: rgb(0, 0, 0)",
     text_color |-> "rgb(0, 0, 0)",
     value_color |-> "rgb(27, 14, 139)",
     id_color |-> "rgb(150, 100, 28)",
     item_min_width |-> 50,
     item_min_height |-> 50,
     obj_min_width |-> 200,
     obj_min_height |-> 130,
     prop_min_width |-> 60,
     prop_min_height |-> 50,
     obj_x_padding |-> 25,
     double_rect_sep |-> 6,
     list_index_sep |-> 20,
     font_size |-> 20,
     browser |-> FALSE]

NumericKeys ==
    {"item_min_width", "item_min_height", "obj_min_width", "obj_min_height",
     "prop_min_width", "prop_min_height", "obj_x_padding", "double_rect_sep",
     "list_index_sep", "font_size"}

\* The options objects a caller constructs the model with.
OptionSets ==
    { [width |-> 1300],
      [obj_min_width |-> 100, obj_min_height |-> 60, bogus |-> 1],
      [item_min_width |-> 40, item_min_height |-> 30, prop_min_width |-> 30,
       prop_min_height |-> 40, obj_x_padding |-> 10, double_rect_sep |-> 4,
       list_index_sep |-> 12, font_size |-> 16, height |-> 900] }

\* A constructor that copies every key of the options object.
ConstructAll(opts) ==
    [key \in DOMAIN DefaultConfig \cup DOMAIN opts |->
        IF key \in DOMAIN opts THEN opts[key] ELSE DefaultConfig[key]]

\* The fields the constructor's loop over `config` sets on `this`.
Construct(opts) ==
    [key \in DOMAIN DefaultConfig |->
        IF key \in DOMAIN opts THEN opts[key] ELSE DefaultConfig[key]]

\* The configuration with its lengths in units.
Scaled(cfg) ==
    [key \in DOMAIN cfg |-> IF key \in NumericKeys THEN Px(cfg[key]) ELSE cfg[key]]

----------------------------------------------------------------------------
(* Drawing primitives.  A node of the surface is a rectangle or a text;    *)
(* `role` names the call site that appended it.                            *)

GetTextLength(s) == Len(s) * Px(CharWidth)

\* The children of the surface when new nodes take the place of the old.
ReplaceChildren(children, nodes) == nodes

\* this.svg.appendChild, for each of `nodes` in turn.
AppendChild(children, nodes) == children \o nodes

DrawRect(c, role, x, y, width, height) ==
    [kind |-> "rect", role |-> role, x |-> x, y |-> y, w |-> width,
     h |-> height, text |-> "", paint |-> c.rect_style, align |-> ""]

DrawText(c, role, text, x, y, colour, align) ==
    [kind |-> "text", role |-> role, x |-> x, y |-> y, w |-> 0, h |-> 0,
     text |-> text,
     paint |-> IF colour = "" THEN c.text_color ELSE colour,
     align |-> IF align = "" THEN "middle" ELSE align]

\* The outcome of a draw method: the nodes it appended, and whether it
\* returned (ok) or raised a TypeError after appending them.
Done(nodes) == [nodes |-> nodes, ok |-> TRUE]
Raise(nodes) == [nodes |-> nodes, ok |-> FALSE]

\* `s.length` raises on undefined and null.
HasLength(v) == v.t \notin {"undef", "null"}

\* The text of a reference: `id${v}`, or "" for null.
IdText(v) == IF v.t = "null" THEN "" ELSE "id" \o ToStr(v)

----------------------------------------------------------------------------
(* Built-in data types *)

immutable == {"int", "str", "tuple", "None", "bool", "float", "date"}
collections == {"list", "set", "tuple", "dict"}

\* Array.prototype.includes(type) on an array of strings.
Includes(types, type) == type.t = "str" /\ type.s \in types

----------------------------------------------------------------------------
(* drawProperties *)

IdBoxWidth(c, id) ==
    Max(c.prop_min_width, GetTextLength("id" \o ToStr(id)) + Px(10))

TypeBoxWidth(c, type) ==
    Max(c.prop_min_width, GetTextLength(type.s) + Px(10))

DrawProperties(c, id, type, x, y, width) ==
    IF ~HasLength(type) THEN Raise(<<>>)
    ELSE LET id_box == IdBoxWidth(c, id)
             type_box == TypeBoxWidth(c, type)
         IN Done(<<
              DrawText(c, "id", IF id.t = "null" THEN "" ELSE "id" \o ToStr(id),
                       x + id_box \div 2, y + (c.font_size * 3) \div 2,
                       c.id_color, ""),
              DrawText(c, "type", type.s,
                       x + width - type_box \div 2, y + (c.font_size * 3) \div 2,
                       c.value_color, ""),
              DrawRect(c, "idbox", x, y, id_box, c.prop_min_height),
              DrawRect(c, "typebox", x + width - type_box, y, type_box,
                       c.prop_min_height) >>)

\* A draw method that ends with a call of another: the nodes of both, and the
\* outcome of the second.
Then(nodes, outcome) == [nodes |-> nodes \o outcome.nodes, ok |-> outcome.ok]

----------------------------------------------------------------------------
(* drawPrimitive *)

\* The width from the JSON text of the value, the text that is displayed.
PrimitiveBoxWidthOfJSON(c, value) ==
    Max(c.obj_min_width, GetTextLength(JSONStringify(value)) + c.obj_x_padding)

PrimitiveBoxWidth(c, value) ==
    Max(c.obj_min_width, GetTextLength(ToStr(value)) + c.obj_x_padding)

\* A second box enlarged by one separation instead of two.
DoubleBoxNarrow(c, type, x, y, box_width, box_height) ==
    IF Includes(immutable, type)
    THEN << DrawRect(c, "double", x - c.double_rect_sep, y - c.double_rect_sep,
                     box_width + c.double_rect_sep,
                     box_height + c.double_rect_sep) >>
    ELSE <<>>

DoubleBox(c, type, x, y, box_width, box_height) ==
    IF Includes(immutable, type)
    THEN << DrawRect(c, "double", x - c.double_rect_sep, y - c.double_rect_sep,
                     box_width + 2 * c.double_rect_sep,
                     box_height + 2 * c.double_rect_sep) >>
    ELSE <<>>

\* The JSON text for a bool as for every other type.
DisplayTextJSON(type, value) == JSONStringify(value)

DisplayText(type, value) ==
    IF type = Str("bool")
    THEN IF Truthy(value) THEN "True" ELSE "False"
    ELSE JSONStringify(value)

\* The value text drawn for truthy values only.
ValueTextIfTruthy(c, type, value, x, y, box_width) ==
    IF Truthy(value)
    THEN << DrawText(c, "value", DisplayText(type, value),
                     x + box_width \div 2,
                     y + (c.obj_min_height + c.prop_min_height) \div 2,
                     c.value_color, "") >>
    ELSE <<>>

ValueText(c, type, value, x, y, box_width) ==
    IF value.t # "null" /\ value.t # "undef"
    THEN << DrawText(c, "value", DisplayText(type, value),
                     x + box_width \div 2,
                     y + (c.obj_min_height + c.prop_min_height) \div 2,
                     c.value_color, "") >>
    ELSE <<>>

DrawPrimitive(c, x, y, type, id, value) ==
    LET box_width == PrimitiveBoxWidth(c, value)
    IN Then(<< DrawRect(c, "box", x, y, box_width, c.obj_min_height) >>
              \o DoubleBox(c, type, x, y, box_width, c.obj_min_height)
              \o ValueText(c, type, value, x, y, box_width),
            DrawProperties(c, id, type, x, y, box_width))

----------------------------------------------------------------------------
(* drawSequence and drawSet *)

\* Width of the sub-box of one element.
ItemLength(c, v) == Max(c.item_min_width, GetTextLength(IdText(v)) + Px(10))

RECURSIVE SumItemLengths(_, _)
SumItemLengths(c, elems) ==
    IF elems = <<>> THEN 0
    ELSE ItemLength(c, Head(elems)) + SumItemLengths(c, Tail(elems))

\* The width without the padding on the two sides.
SequenceBoxWidthUnpadded(c, elems) ==
    Max(c.obj_min_width, SumItemLengths(c, elems))

SequenceBoxWidth(c, elems) ==
    Max(c.obj_min_width, c.obj_x_padding * 2 + SumItemLengths(c, elems))

\* The height without the room for the index labels.
SequenceBoxHeightFlat(c, show_idx) == c.obj_min_height

SequenceBoxHeight(c, show_idx) ==
    IF Truthy(show_idx) THEN c.obj_min_height + c.list_index_sep
    ELSE c.obj_min_height

\* y coordinate of the element sub-boxes of a list, tuple or set.
ItemY(c, y) ==
    y + c.prop_min_height
      + (c.obj_min_height - c.prop_min_height - c.item_min_height) \div 2

\* The second forEach of drawSequence, from element number i at curr_x.
RECURSIVE SequenceItems(_, _, _, _, _, _)
SequenceItems(c, elems, i, curr_x, item_y, show_idx) ==
    IF i > Len(elems) THEN <<>>
    ELSE LET idv == IdText(elems[i])
             item_length == ItemLength(c, elems[i])
         IN << DrawRect(c, "item", curr_x, item_y, item_length, c.item_min_height),
               DrawText(c, "item", idv, curr_x + item_length \div 2,
                        item_y + c.item_min_height \div 2 + c.font_size \div 4,
                        c.id_color, "") >>
            \o (IF Truthy(show_idx)
                THEN << DrawText(c, "index", NumToString(i - 1),
                                 curr_x + item_length \div 2,
                                 item_y - c.item_min_height \div 4,
                                 c.text_color, "") >>
                ELSE <<>>)
            \o SequenceItems(c, elems, i + 1, curr_x + item_length, item_y, show_idx)

DrawSequence(c, x, y, type, id, element_ids, show_idx) ==
    IF element_ids.t # "arr" THEN Raise(<<>>)
    ELSE LET box_width == SequenceBoxWidth(c, element_ids.a)
             box_height == SequenceBoxHeight(c, show_idx)
             item_y == IF Truthy(show_idx) THEN ItemY(c, y) + c.list_index_sep
                       ELSE ItemY(c, y)
         IN Then(<< DrawRect(c, "box", x, y, box_width, box_height) >>
                   \o DoubleBox(c, type, x, y, box_width, box_height)
                   \o SequenceItems(c, element_ids.a, 1, x + c.item_min_width \div 2,
                                    item_y, show_idx),
                 DrawProperties(c, id,
                                IF type = Str("list") THEN Str("list") ELSE Str("tuple"),
                                x, y, box_width))

SetBoxWidth(c, elems) ==
    Max(c.obj_min_width, c.obj_x_padding * 2 + SumItemLengths(c, elems))
      + ((Len(elems) - 1) * c.item_min_width) \div 4

\* A comma drawn with the first element too.
SetCommaFromFirst(c, i, curr_x, item_text_y) ==
    IF i - 1 >= 0
    THEN << DrawText(c, "comma", ",", curr_x - c.item_min_width \div 8,
                     item_text_y, c.text_color, "") >>
    ELSE <<>>

\* The comma drawn with element number i of a set.
SetComma(c, i, curr_x, item_text_y) ==
    IF i - 1 > 0
    THEN << DrawText(c, "comma", ",", curr_x - c.item_min_width \div 8,
                     item_text_y, c.text_color, "") >>
    ELSE <<>>

\* The second forEach of drawSet, from element number i at curr_x.
RECURSIVE SetItems(_, _, _, _, _, _)
SetItems(c, elems, i, curr_x, item_y, item_text_y) ==
    IF i > Len(elems) THEN <<>>
    ELSE LET idv == IdText(elems[i])
             item_length == ItemLength(c, elems[i])
         IN << DrawRect(c, "item", curr_x, item_y, item_length, c.item_min_height),
               DrawText(c, "item", idv, curr_x + item_length \div 2, item_text_y,
                        c.id_color, "") >>
            \o SetComma(c, i, curr_x, item_text_y)
            \o SetItems(c, elems, i + 1,
                        curr_x + item_length + c.item_min_height \div 4,
                        item_y, item_text_y)

SetBraces(c, x, box_width, item_text_y) ==
    << DrawText(c, "brace", "{", x + c.item_min_width \div 4, item_text_y,
                c.text_color, ""),
       DrawText(c, "brace", "}", x + box_width - c.item_min_width \div 4,
                item_text_y, c.text_color, "") >>

DrawSet(c, x, y, id, element_ids) ==
    IF element_ids.t # "arr" THEN Raise(<<>>)
    ELSE LET box_width == SetBoxWidth(c, element_ids.a)
             item_y == ItemY(c, y)
             item_text_y == item_y + c.item_min_height \div 2 + c.font_size \div 4
             props == DrawProperties(c, id, Str("set"), x, y, box_width)
         IN Done(<< DrawRect(c, "box", x, y, box_width, c.obj_min_height) >>
                   \o SetItems(c, element_ids.a, 1, x + c.item_min_width \div 2,
                               item_y, item_text_y)
                   \o props.nodes
                   \o SetBraces(c, x, box_width, item_text_y))

----------------------------------------------------------------------------
(* drawDict and drawClass *)

\* The (key, value) pairs a `for (const k in obj)` loop goes through: the
\* properties of an object, the indices of an array, nothing for null,
\* undefined, a number or a boolean.
ForIn(obj) ==
    CASE obj.t = "obj" -> OwnPropertyOrder(obj.a)
      [] obj.t = "arr" -> [i \in 1..Len(obj.a) |-> <<NatToString(i - 1), obj.a[i]>>]
      [] OTHER -> <<>>

\* `idk + 5` and `idv + 5` append the character 5 to the text.
DictKeyBox(c, k) == Max(c.item_min_width, GetTextLength(("id" \o k) \o "5"))
DictValueBox(c, v) == Max(c.item_min_width, GetTextLength(IdText(v) \o "5"))

RECURSIVE DictBoxWidth(_, _)
DictBoxWidth(c, pairs) ==
    IF pairs = <<>> THEN c.obj_min_width
    ELSE LET p == pairs[Len(pairs)]
         IN Max(DictBoxWidth(c, SubSeq(pairs, 1, Len(pairs) - 1)),
                c.obj_x_padding * 2 + DictKeyBox(c, p[1]) + DictValueBox(c, p[2])
                  + 2 * c.font_size)

DictBoxHeight(c, pairs) ==
    c.prop_min_height + c.item_min_height \div 2
      + Len(pairs) * ((3 * c.item_min_height) \div 2)

\* Top edge of row number i of a dict or of a class.
RowY(c, y, i) ==
    y + c.prop_min_height + c.item_min_height \div 2
      + (i - 1) * ((c.item_min_height * 3) \div 2)

\* The first loop of drawDict: the key boxes.
DictKeys(c, x, y, pairs) ==
    LET row(i) ==
          << DrawRect(c, "key", x + c.obj_x_padding, RowY(c, y, i),
                      DictKeyBox(c, pairs[i][1]), c.item_min_height),
             DrawText(c, "key", "id" \o pairs[i][1], x + c.item_min_width + Px(2),
                      RowY(c, y, i) + c.item_min_height \div 2 + c.font_size \div 4,
                      c.id_color, "") >>
        rows[i \in 0..Len(pairs)] == IF i = 0 THEN <<>> ELSE rows[i - 1] \o row(i)
    IN rows[Len(pairs)]

\* The second loop of drawDict: the colons and the value boxes.
DictValues(c, x, y, pairs, box_width) ==
    LET row(i) ==
          LET idv == IdText(pairs[i][2])
              value_box == DictValueBox(c, pairs[i][2])
              text_y == RowY(c, y, i) + c.item_min_height \div 2 + c.font_size \div 4
          IN << DrawText(c, "colon", ":", x + box_width \div 2, text_y,
                         c.value_color, ""),
                DrawRect(c, "value", x + box_width \div 2 + c.font_size,
                         RowY(c, y, i), value_box, c.item_min_height),
                DrawText(c, "value", idv,
                         x + box_width \div 2 + c.font_size + value_box \div 2,
                         text_y, c.id_color, "") >>
        rows[i \in 0..Len(pairs)] == IF i = 0 THEN <<>> ELSE rows[i - 1] \o row(i)
    IN rows[Len(pairs)]

DrawDict(c, x, y, id, obj) ==
    LET pairs == ForIn(obj)
        box_width == DictBoxWidth(c, pairs)
        box_height == DictBoxHeight(c, pairs)
    IN Then(DictKeys(c, x, y, pairs)
              \o DictValues(c, x, y, pairs, box_width)
              \o << DrawRect(c, "box", x, y, box_width, box_height) >>,
            DrawProperties(c, id, Str("dict"), x, y, box_width))

RECURSIVE Longest(_)
Longest(pairs) ==
    IF pairs = <<>> THEN 0
    ELSE Max(GetTextLength(Head(pairs)[1]), Longest(Tail(pairs)))

ClassBoxWidth(c, name, pairs) ==
    LET longest == Longest(pairs)
        box_width == IF longest > 0 THEN longest + c.item_min_width * 3
                     ELSE c.obj_min_width
    IN Max(box_width, c.prop_min_width + GetTextLength(name) + Px(10))

ClassBoxHeight(c, pairs) ==
    IF Len(pairs) > 0
    THEN ((c.item_min_width * 3) \div 2) * Len(pairs) + c.item_min_width \div 2
           + c.prop_min_height
    ELSE c.obj_min_height

\* The loop of drawClass over the attributes.
ClassAttributes(c, x, y, pairs, box_width) ==
    LET row(i) ==
          LET idv == IdText(pairs[i][2])
              attr_box == ItemLength(c, pairs[i][2])
              left == x + box_width - (c.item_min_width * 3) \div 2
              text_y == RowY(c, y, i) + c.item_min_height \div 2 + c.font_size \div 4
          IN << DrawRect(c, "attr", left, RowY(c, y, i), attr_box, c.item_min_height),
                DrawText(c, "attrname", pairs[i][1], x + c.item_min_width \div 2,
                         text_y, c.text_color, "begin"),
                DrawText(c, "attr", idv, left + attr_box \div 2, text_y,
                         c.id_color, "") >>
        rows[i \in 0..Len(pairs)] == IF i = 0 THEN <<>> ELSE rows[i - 1] \o row(i)
    IN rows[Len(pairs)]

\* A name label as wide as its text, without the margin.
StackFrameLabelTight(c, x, y, name) ==
    LET text_length == GetTextLength(name)
    IN << DrawRect(c, "namebox", x, y, text_length, c.prop_min_height),
          DrawText(c, "name", name, x + text_length \div 2 + Px(5),
                   y + (c.prop_min_height * 3) \div 5, c.text_color, "") >>

\* The name label of a stack frame.
StackFrameLabel(c, x, y, name) ==
    LET text_length == GetTextLength(name)
    IN << DrawRect(c, "namebox", x, y, text_length + Px(10), c.prop_min_height),
          DrawText(c, "name", name, x + text_length \div 2 + Px(5),
                   y + (c.prop_min_height * 3) \div 5, c.text_color, "") >>

DrawClass(c, x, y, name, id, attributes, stack_frame) ==
    IF ~HasLength(name) \/ attributes.t \in {"null", "undef"} THEN Raise(<<>>)
    ELSE LET pairs == ForIn(attributes)
             box_width == ClassBoxWidth(c, name.s, pairs)
             box_height == ClassBoxHeight(c, pairs)
             body == << DrawRect(c, "box", x, y, box_width, box_height) >>
                       \o ClassAttributes(c, x, y, pairs, box_width)
         IN IF Truthy(stack_frame)
            THEN Done(body \o StackFrameLabel(c, x, y, name.s))
            ELSE Then(body, DrawProperties(c, id, name, x, y, box_width))

----------------------------------------------------------------------------
(* drawObject and drawAll *)

\* The draw method drawObject hands a built-in of this type to.
Dispatch(type) ==
    IF Includes(collections, type)
    THEN IF type.s = "dict" THEN "drawDict"
         ELSE IF type.s = "set" THEN "drawSet"
         ELSE "drawSequence"
    ELSE "drawPrimitive"

DrawObject(c, x, y, type, id, value, show_indexes) ==
    CASE Dispatch(type) = "drawDict" -> DrawDict(c, x, y, id, value)
      [] Dispatch(type) = "drawSet" -> DrawSet(c, x, y, id, value)
      [] Dispatch(type) = "drawSequence" ->
            DrawSequence(c, x, y, type, id, value, show_indexes)
      [] OTHER -> DrawPrimitive(c, x, y, type, id, value)

\* An item after an iteration that writes the defaults of showIndexes and
\* stackFrame into it.
ItemDefaulted(item) ==
    [item EXCEPT !.showIndexes = IF Truthy(@) THEN @ ELSE Bool(FALSE),
                 !.stackFrame = IF Truthy(@) THEN @ ELSE Null]

\* An item after one iteration of drawAll's loop, which reads its fields and
\* assigns none.
ItemLeft(item) == item

\* The list after drawAll has visited its first `count` items.
ObjectsLeft(objects, count) ==
    [i \in 1..Len(objects) |->
        IF i <= count THEN ItemLeft(objects[i]) ELSE objects[i]]

\* The draw method one iteration of drawAll's loop calls for an item.
RendererOf(item) ==
    IF Truthy(item.isClass) THEN "drawClass" ELSE Dispatch(item.name)

\* One iteration of drawAll's loop.
DrawItem(c, item) ==
    IF Truthy(item.isClass)
    THEN DrawClass(c, Px(item.x), Px(item.y), item.name, item.id, item.value,
                   item.stack_frame)
    ELSE DrawObject(c, Px(item.x), Px(item.y), item.name, item.id, item.value,
                    item.show_indexes)

\* What a finished or aborted call leaves in the log for one item: the
\* method called, its argument, and the places from..to of its nodes.
Entry(fn, item, from, outcome) ==
    [fn |-> fn, item |-> item, width |-> 0, from |-> from,
     to |-> from + Len(outcome.nodes) - 1, ok |-> outcome.ok]

\* The outcome of drawAll: the nodes appended, the log of the items
\* visited, and whether the loop returned or raised.
Visited(nodes, entries, ok) == [nodes |-> nodes, entries |-> entries, ok |-> ok]

\* The outcome of a loop whose first iteration had the outcome `first` and
\* whose later iterations had the outcome `rest`.
Followed(entry, first, rest) ==
    Visited(first.nodes \o rest.nodes, <<entry>> \o rest.entries, rest.ok)

\* drawAll going through the list from its last item to its first.
RECURSIVE DrawAllBackwards(_, _, _)
RECURSIVE BackwardsFrom(_, _, _, _)
BackwardsFrom(c, objects, base, last) ==
    IF ~last.ok
    THEN Visited(last.nodes,
                 << Entry(RendererOf(objects[Len(objects)]), objects[Len(objects)],
                          base + 1, last) >>, FALSE)
    ELSE Followed(Entry(RendererOf(objects[Len(objects)]), objects[Len(objects)],
                        base + 1, last),
                  last,
                  DrawAllBackwards(c, SubSeq(objects, 1, Len(objects) - 1),
                                   base + Len(last.nodes)))

DrawAllBackwards(c, objects, base) ==
    IF objects = <<>> THEN Visited(<<>>, <<>>, TRUE)
    ELSE BackwardsFrom(c, objects, base, DrawItem(c, objects[Len(objects)]))

\* drawAll(objects) on a surface of `base` nodes: the loop stops at the
\* first item whose draw method raises.
RECURSIVE DrawAll(_, _, _)
RECURSIVE DrawAllFrom(_, _, _, _)

\* The loop from its first item on, `first` being the outcome of drawing it.
DrawAllFrom(c, objects, base, first) ==
    IF ~first.ok
    THEN Visited(first.nodes,
                 << Entry(RendererOf(Head(objects)), Head(objects), base + 1, first) >>,
                 FALSE)
    ELSE Followed(Entry(RendererOf(Head(objects)), Head(objects), base + 1, first),
                  first,
                  DrawAll(c, Tail(objects), base + Len(first.nodes)))

DrawAll(c, objects, base) ==
    IF objects = <<>> THEN Visited(<<>>, <<>>, TRUE)
    ELSE DrawAllFrom(c, objects, base, DrawItem(c, Head(objects)))

----------------------------------------------------------------------------
(* The inputs of the draw calls *)

\* An entity descriptor with every optional field absent.
Item(isClass, name, id, value) ==
    [isClass |-> Bool(isClass), name |-> name, type |-> Undef, id |-> id,
     value |-> value, x |-> 0, y |-> 0, stack_frame |-> Undef,
     show_indexes |-> Undef, showIndexes |-> Undef, isStackFrame |-> Undef,
     stackFrame |-> Undef]

At(item, x, y) == [item EXCEPT !.x = x, !.y = y]

LongString == "hello, memory models"

PrimitiveItems ==
    { Item(FALSE, Str("bool"), Num(7), Bool(TRUE)),
      Item(FALSE, Str("bool"), Num(8), Bool(FALSE)),
      Item(FALSE, Str("bool"), Num(9), Null),
      [Item(FALSE, Undef, Num(7), Bool(TRUE)) EXCEPT !.type = Str("bool")],
      Item(FALSE, Str("int"), Num(10), Num(0)),
      Item(FALSE, Str("int"), Num(11), Undef),
      Item(FALSE, Str("str"), Num(12), Str("")),
      At(Item(FALSE, Str("str"), Str("s1"), Str(LongString)), 40, 16),
      Item(FALSE, Str("None"), Num(13), Null),
      Item(FALSE, Str("date"), Num(15), Str("2019-01-01")),
      Item(FALSE, Str("foo"), Num(14), Num(5)) }

SequenceItemsIn ==
    { [Item(FALSE, Str("list"), Num(1), Arr(<<Num(2), Num(3)>>))
         EXCEPT !.show_indexes = Bool(TRUE)],
      Item(FALSE, Str("list"), Num(1), Arr(<<Num(2), Num(3)>>)),
      [Item(FALSE, Undef, Num(1), Arr(<<Num(2), Num(3)>>))
         EXCEPT !.type = Str("list"), !.showIndexes = Bool(TRUE)],
      [Item(FALSE, Str("list"), Num(1), Arr(<<Num(2), Num(3)>>))
         EXCEPT !.showIndexes = Bool(TRUE)],
      [At(Item(FALSE, Str("tuple"), Num(20), Arr(<<Num(123456), Null, Str("ab")>>)), 40, 16)
         EXCEPT !.show_indexes = Bool(TRUE)],
      [Item(FALSE, Str("tuple"), Num(21), Arr(<<>>))
         EXCEPT !.show_indexes = Bool(FALSE)],
      Item(FALSE, Str("list"), Num(22), Null) }

SetItemsIn ==
    { Item(FALSE, Str("set"), Num(30), Arr(<<>>)),
      Item(FALSE, Str("set"), Num(31), Arr(<<Num(1)>>)),
      At(Item(FALSE, Str("set"), Num(32), Arr(<<Num(1), Null, Num(123456)>>)), 40, 16) }

DictItems ==
    { Item(FALSE, Str("dict"), Num(40), Obj(<<>>)),
      Item(FALSE, Str("dict"), Num(41), Obj(<< <<"1", Num(2)>> >>)),
      At(Item(FALSE, Str("dict"), Num(42),
              Obj(<< <<"x", Num(1)>>, <<"123456", Null>> >>)), 40, 16),
      Item(FALSE, Str("dict"), Num(43), Null) }

ClassItems ==
    { Item(TRUE, Str("A"), Num(50), Obj(<< <<"a", Num(2)>> >>)),
      Item(TRUE, Str("Person"), Num(51), Obj(<<>>)),
      [At(Item(TRUE, Str("__main__"), Null,
               Obj(<< <<"lst1", Num(82)>>, <<"p", Num(99)>> >>)), 40, 16)
         EXCEPT !.stack_frame = Bool(TRUE)],
      Item(TRUE, Str("list"), Num(52), Obj(<< <<"items", Num(3)>> >>)),
      [Item(TRUE, Str("f"), Null, Obj(<< <<"n", Num(4)>> >>))
         EXCEPT !.isStackFrame = Bool(TRUE)],
      Item(TRUE, Str("B"), Num(53), Null) }

\* Built-ins that carry the stack-frame flag of a class.
FlaggedBuiltIns ==
    { [Item(FALSE, Str("int"), Num(10), Num(0)) EXCEPT !.stack_frame = Bool(TRUE)],
      [Item(FALSE, Str("list"), Num(1), Arr(<<Num(2), Num(3)>>))
         EXCEPT !.stack_frame = Bool(TRUE)] }

\* The descriptors the lists handed to drawAll are made of.
Pool ==
    PrimitiveItems \cup SequenceItemsIn \cup SetItemsIn \cup DictItems \cup ClassItems
      \cup FlaggedBuiltIns

----------------------------------------------------------------------------
(* The state machine: a MemoryModel after construction, and the calls made  *)
(* on it.                                                                   *)

\* The text of a file: a JSON document (the members of each object of its
\* array, as written) or the markup of a surface (its nodes).
File(format, doc) == [format |-> format, doc |-> doc]

\* The JSON file of the descriptors of a bool and of a stack frame.
Descriptors ==
    << << <<"isClass", Bool(FALSE)>>, <<"name", Str("bool")>>, <<"id", Num(7)>>,
          <<"value", Bool(TRUE)>>, <<"x", Num(0)>>, <<"y", Num(0)>> >>,
       << <<"isClass", Bool(TRUE)>>, <<"x", Num(40)>>, <<"y", Num(16)>>,
          <<"name", Str("__main__")>>, <<"id", Null>>,
          <<"value", Obj(<< <<"lst1", Num(82)>> >>)>>,
          <<"stack_frame", Bool(TRUE)>> >> >>

\* The files on disk when the model is constructed.
Disk == "a.json" :> File("json", Descriptors)

\* After `new MemoryModel(options)`: the configuration, an empty surface.
Constructed ==
    /\ options \in OptionSets
    /\ config = Construct(options)
    /\ fs = [files |-> Disk, writes |-> <<>>]
    /\ console = <<>>
    /\ svg = <<>>
    /\ log = <<>>
    /\ calls = <<>>
    /\ raised = FALSE

Init == Constructed /\ pending = <<>>

\* The number of descriptors handed to drawAll so far.
RECURSIVE Submitted(_)
Submitted(cs) == IF cs = <<>> THEN 0 ELSE Len(Head(cs).objects) + Submitted(Tail(cs))

\* What a drawAll(objects) call with this outcome does to the surface and
\* to the caller's list.
Looped(objects, outcome) ==
    /\ svg' = AppendChild(svg, outcome.nodes)
    /\ log' = log \o outcome.entries
    /\ calls' = Append(calls, [objects |-> objects, ok |-> outcome.ok,
                                first |-> Len(log) + 1,
                                count |-> Len(outcome.entries),
                                left |-> ObjectsLeft(objects, Len(outcome.entries))])
    /\ raised' = ~outcome.ok

\* The effect of a drawAll(objects) call with this outcome.
Drawn(objects, outcome) ==
    /\ Looped(objects, outcome)
    /\ UNCHANGED <<config, pending, options, fs, console>>

\* drawAll(objects)
DrawAllCall ==
    \E n \in 1..(MaxDrawn - Submitted(calls)) :
      \E objects \in [1..n -> Pool] :
        Drawn(objects, DrawAll(Scaled(config), objects, Len(svg)))

Next == DrawAllCall

Spec == Init /\ [][Next]_vars

----------------------------------------------------------------------------
(* Direct calls of one draw method.  `pending` holds the calls the client   *)
(* is about to make, each with its arguments in the shape of a descriptor.  *)

Call(fn, item, width) == [fn |-> fn, item |-> item, width |-> width]

\* The sequences over S of length lo..hi.
Seqs(S, lo, hi) == UNION {[1..k -> S] : k \in lo..hi}

\* The effect of the call at the head of `pending` with this outcome.
Direct(outcome) ==
    /\ svg' = AppendChild(svg, outcome.nodes)
    /\ log' = Append(log, [Entry(Head(pending).fn, Head(pending).item,
                                 Len(svg) + 1, outcome)
                             EXCEPT !.width = Head(pending).width])
    /\ raised' = ~outcome.ok
    /\ pending' = Tail(pending)
    /\ UNCHANGED <<config, calls, options, fs, console>>

Awaits(fn) == pending # <<>> /\ Head(pending).fn = fn

\* drawClass(x, y, name, id, attributes, stack_frame)
DrawClassCall ==
    /\ Awaits("drawClass")
    /\ LET a == Head(pending).item
       IN Direct(DrawClass(Scaled(config), Px(a.x), Px(a.y), a.name, a.id,
                           a.value, a.stack_frame))

\* drawPrimitive(x, y, type, id, value)
DrawPrimitiveCall ==
    /\ Awaits("drawPrimitive")
    /\ LET a == Head(pending).item
       IN Direct(DrawPrimitive(Scaled(config), Px(a.x), Px(a.y), a.name, a.id,
                               a.value))

\* drawProperties(id, type, x, y, width)
DrawPropertiesCall ==
    /\ Awaits("drawProperties")
    /\ LET a == Head(pending).item
       IN Direct(DrawProperties(Scaled(config), a.id, a.name, Px(a.x), Px(a.y),
                                Px(Head(pending).width)))

\* drawSet(x, y, id, element_ids)
DrawSetCall ==
    /\ Awaits("drawSet")
    /\ LET a == Head(pending).item
       IN Direct(DrawSet(Scaled(config), Px(a.x), Px(a.y), a.id, a.value))

\* drawDict(x, y, id, obj)
DrawDictCall ==
    /\ Awaits("drawDict")
    /\ LET a == Head(pending).item
       IN Direct(DrawDict(Scaled(config), Px(a.x), Px(a.y), a.id, a.value))

\* drawSequence(x, y, type, id, element_ids, show_idx)
DrawSequenceCall ==
    /\ Awaits("drawSequence")
    /\ LET a == Head(pending).item
       IN Direct(DrawSequence(Scaled(config), Px(a.x), Px(a.y), a.name, a.id,
                              a.value, a.show_indexes))

Positions == { <<0, 0>>, <<40, 16>> }

RefIds == { Num(1), Null, Num(123456) }

ClassNames == { "", "A", "Person", "AVeryLongClassName" }
AttributeNames == { "a", "", "attribute_name" }
AttributePairs == { <<k, v>> : k \in AttributeNames, v \in RefIds }

\* No property name is written twice.
DistinctNames(qs) == \A i, j \in 1..Len(qs) : i < j => qs[i][1] # qs[j][1]

\* Objects with at most MaxPairs properties, as written.
Objects(pairs) ==
    { Obj(ps) : ps \in { qs \in Seqs(pairs, 0, MaxPairs) : DistinctNames(qs) } }

ClassArgs ==
    { [At(Item(TRUE, Str(name), id, attributes), 40, 16)
         EXCEPT !.stack_frame = stack_frame] :
        name \in ClassNames, id \in { Num(50), Null, Num(123456) },
        attributes \in Objects(AttributePairs),
        stack_frame \in { Undef, Bool(TRUE) } }

InitClass ==
    /\ Constructed
    /\ pending \in { << Call("drawClass", a, 0) >> : a \in ClassArgs }

SpecClass == InitClass /\ [][DrawClassCall]_vars

DictKeysIn == { "1", "x", "123456", "username" }
DictPairsIn == { <<k, v>> : k \in DictKeysIn, v \in RefIds }

DictArgs ==
    { At(Item(FALSE, Str("dict"), id, obj), 40, 16) :
        id \in { Num(40), Null },
        obj \in Objects(DictPairsIn)
                  \cup { Null, Undef, Num(5), Arr(<<Num(2), Null>>) } }

InitDict ==
    /\ Constructed
    /\ pending \in { << Call("drawDict", a, 0) >> : a \in DictArgs }

SpecDict == InitDict /\ [][DrawDictCall]_vars

PropertyIds == { Num(7), Null, Str("abc"), Num(123456) }
PropertyTypes == { Str("int"), Str(""), Str("AVeryLongClassName"), Undef }

PropertiesArgs ==
    { << At(Item(FALSE, type, id, Undef), p[1], p[2]), width >> :
        type \in PropertyTypes, id \in PropertyIds, p \in Positions,
        width \in { 200, 325 } }

InitProperties ==
    /\ Constructed
    /\ pending \in { << Call("drawProperties", a[1], a[2]) >> : a \in PropertiesArgs }

SpecProperties == InitProperties /\ [][DrawPropertiesCall]_vars

SetElements == RefIds \cup { Str(",") }

SetArgs ==
    { At(Item(FALSE, Str("set"), Num(30), value), 40, 16) :
        value \in { Arr(elems) : elems \in Seqs(SetElements, 0, MaxLen) } \cup { Null } }

InitSet ==
    /\ Constructed
    /\ pending \in { << Call("drawSet", a, 0) >> : a \in SetArgs }

SpecSet == InitSet /\ [][DrawSetCall]_vars

SequenceArgs ==
    { [At(Item(FALSE, Str(type), Num(1), Arr(elems)), 40, 16)
         EXCEPT !.show_indexes = show_idx] :
        type \in { "list", "tuple" }, elems \in Seqs(RefIds, 0, MaxLen),
        show_idx \in { Undef, Bool(TRUE) } }

\* One call of drawSequence or of drawSet.
InitElements ==
    /\ Constructed
    /\ pending \in { << Call("drawSequence", a, 0) >> : a \in SequenceArgs }
                     \cup { << Call("drawSet", a, 0) >> : a \in SetArgs }

NextElements == DrawSequenceCall \/ DrawSetCall

SpecElements == InitElements /\ [][NextElements]_vars

\* Primitive values, each with the string JavaScript's String() gives for it.
PrimitiveValues ==
    { <<Bool(TRUE), "true">>, <<Bool(FALSE), "false">>, <<Null, "null">>,
      <<Undef, "undefined">>, <<Num(0), "0">>, <<Num(-1234567), "-1234567">>,
      <<Str(""), "">>, <<Str("fifteen chars.."), "fifteen chars..">>,
      <<Str(LongString), LongString>> }

PrimitiveArgs ==
    { At(Item(FALSE, Str(type), Num(7), v[1]), 40, 16) :
        type \in { "bool", "int" }, v \in PrimitiveValues }

InitPrimitive ==
    /\ Constructed
    /\ pending \in Seqs({ Call("drawPrimitive", a, 0) : a \in PrimitiveArgs },
                        1, MaxPrimCalls)

SpecPrimitive == InitPrimitive /\ [][DrawPrimitiveCall]_vars

----------------------------------------------------------------------------
(* A session: a client constructs a model and calls its public methods in  *)
(* some order, while the writes that save has issued complete in between.   *)

\* A call of the session: a draw method with its arguments, drawAll with its
\* list, or save and createFromJSON with their path.
Request(fn, item, width, objects, path) ==
    [fn |-> fn, item |-> item, width |-> width, objects |-> objects, path |-> path]

Nothing == Item(FALSE, Undef, Undef, Undef)

\* JSON.parse of one object of a descriptor file: the value of the last
\* member of the name, undefined when there is none.
RECURSIVE Field(_, _)
Field(members, name) ==
    IF members = <<>> THEN Undef
    ELSE IF members[Len(members)][1] = name THEN members[Len(members)][2]
    ELSE Field(SubSeq(members, 1, Len(members) - 1), name)

ParseItem(members) ==
    [isClass |-> Field(members, "isClass"), name |-> Field(members, "name"),
     type |-> Field(members, "type"), id |-> Field(members, "id"),
     value |-> Field(members, "value"),
     x |-> Field(members, "x").n, y |-> Field(members, "y").n,
     stack_frame |-> Field(members, "stack_frame"),
     show_indexes |-> Field(members, "show_indexes"),
     showIndexes |-> Field(members, "showIndexes"),
     isStackFrame |-> Field(members, "isStackFrame"),
     stackFrame |-> Field(members, "stackFrame")]

\* JSON.parse of a descriptor file.
Parse(doc) == [i \in 1..Len(doc) |-> ParseItem(doc[i])]

\* XMLSerializer.serializeToString(this.svg): the markup of the nodes.
SerializeToString(children) == File("svg", children)

\* The lists handed to drawAll in a session.
SessionLists ==
    { << Item(FALSE, Str("bool"), Num(7), Bool(TRUE)) >>,
      << Item(FALSE, Str("list"), Num(1), Arr(<<Num(2), Num(3)>>)),
         [At(Item(TRUE, Str("__main__"), Null, Obj(<< <<"p", Num(99)>> >>)), 40, 16)
            EXCEPT !.stack_frame = Bool(TRUE)] >>,
      << Item(FALSE, Str("set"), Num(30), Arr(<<Num(1)>>)),
         Item(FALSE, Str("list"), Num(22), Null),
         Item(FALSE, Str("int"), Num(10), Num(0)) >> }

\* The calls a session is made of.
Requests ==
    { Request("drawAll", Nothing, 0, objects, Undef) : objects \in SessionLists }
      \cup { Request("createFromJSON", Nothing, 0, <<>>, Str(path)) :
                path \in {"a.json", "b.json", "out.svg"} }
      \cup { Request("save", Nothing, 0, <<>>, path) :
                path \in {Undef, Str("out.svg"), Str("a.json")} }
      \cup { Request("drawObject", At(Item(FALSE, Str("dict"), Num(41),
                                          Obj(<< <<"1", Num(2)>> >>)), 40, 16),
                      0, <<>>, Undef),
              Request("drawObject", Item(FALSE, Str("str"), Num(12), Str("")),
                      0, <<>>, Undef),
              Request("drawClass", Item(TRUE, Str("A"), Num(50),
                                        Obj(<< <<"a", Num(2)>> >>)), 0, <<>>, Undef),
              Request("drawRect", At(Nothing, 40, 16), 200, <<>>, Undef),
              Request("drawText", At(Item(FALSE, Undef, Undef, Str("hi")), 40, 16),
                      0, <<>>, Undef) }

InitSession ==
    /\ Constructed
    /\ pending \in Seqs(Requests, 1, MaxCalls)

\* drawAll(objects)
DrawAllRequest ==
    /\ Awaits("drawAll")
    /\ Looped(Head(pending).objects,
              DrawAll(Scaled(config), Head(pending).objects, Len(svg)))
    /\ pending' = Tail(pending)
    /\ UNCHANGED <<config, options, fs, console>>

\* Whether readFileSync and JSON.parse give a list for this path.
Readable(path) == path \in DOMAIN fs.files /\ fs.files[path].format = "json"

\* createFromJSON(path): readFileSync raises when there is no such file,
\* JSON.parse when the file holds no JSON; otherwise drawAll of the list.
CreateFromJSONRequest ==
    /\ Awaits("createFromJSON")
    /\ IF Readable(Head(pending).path.s)
       THEN Looped(Parse(fs.files[Head(pending).path.s].doc),
                   DrawAll(Scaled(config), Parse(fs.files[Head(pending).path.s].doc),
                           Len(svg)))
       ELSE /\ raised' = TRUE
            /\ UNCHANGED <<svg, log, calls>>
    /\ pending' = Tail(pending)
    /\ UNCHANGED <<config, options, fs, console>>

\* drawObject(x, y, type, id, value, show_indexes)
DrawObjectRequest ==
    /\ Awaits("drawObject")
    /\ LET a == Head(pending).item
       IN Direct(DrawObject(Scaled(config), Px(a.x), Px(a.y), a.name, a.id,
                            a.value, a.show_indexes))

\* drawRect(x, y, width, height)
DrawRectRequest ==
    /\ Awaits("drawRect")
    /\ LET a == Head(pending).item
       IN Direct(Done(<< DrawRect(Scaled(config), "rect", Px(a.x), Px(a.y),
                                  Px(Head(pending).width), Px(Head(pending).width)) >>))

\* drawText(text, x, y)
DrawTextRequest ==
    /\ Awaits("drawText")
    /\ LET a == Head(pending).item
       IN Direct(Done(<< DrawText(Scaled(config), "text", a.value.s, Px(a.x), Px(a.y),
                                  "", "") >>))

\* save(path): the markup goes to stdout, or into a write that is issued
\* and not awaited.
SaveRequest ==
    /\ Awaits("save")
    /\ IF Head(pending).path = Undef
       THEN /\ console' = Append(console, [stream |-> "log",
                                           data |-> SerializeToString(svg)])
            /\ fs' = fs
       ELSE /\ fs' = [fs EXCEPT !.writes =
                        Append(@, [path |-> Head(pending).path.s,
                                   data |-> SerializeToString(svg)])]
            /\ console' = console
    /\ raised' = FALSE
    /\ pending' = Tail(pending)
    /\ UNCHANGED <<config, svg, log, calls, options>>

\* The writes in flight when number i is issued again.
Reissued(writes, i) ==
    SubSeq(writes, 1, i - 1) \o SubSeq(writes, i + 1, Len(writes)) \o << writes[i] >>

\* The writes in flight without number i.
Without(writes, i) == SubSeq(writes, 1, i - 1) \o SubSeq(writes, i + 1, Len(writes))

\* The callback of fs.writeFile: a write in flight completes, the file
\* written, or fails, the error sent to console.error.
WriteFileCallback ==
    \E i \in 1..Len(fs.writes) :
      \E err \in BOOLEAN :
        /\ fs' = [files |-> IF err THEN fs.files
                            ELSE (fs.writes[i].path :> fs.writes[i].data) @@ fs.files,
                  writes |-> Without(fs.writes, i)]
        /\ console' = IF err
                      THEN Append(console, [stream |-> "error",
                                            data |-> File("error", <<>>)])
                      ELSE console
        /\ UNCHANGED <<config, svg, log, calls, raised, pending, options>>

NextSession ==
    \/ DrawAllRequest
    \/ CreateFromJSONRequest
    \/ DrawObjectRequest
    \/ DrawClassCall
    \/ DrawRectRequest
    \/ DrawTextRequest
    \/ SaveRequest
    \/ WriteFileCallback

SpecSession == InitSession /\ [][NextSession]_vars

----------------------------------------------------------------------------
(* Properties.  Each is stated over the surface and the log of the calls.   *)

\* The configuration in units, and the spec's measure of a text.
Cfg == Scaled(config)
Measure(s) == Len(s) * Px(12)

\* The nodes of log entry e, and those of one kind or role.
NodesOf(e) == SubSeq(svg, e.from, e.to)
Rects(nodes) == SelectSeq(nodes, LAMBDA n : n.kind = "rect")
Texts(nodes) == SelectSeq(nodes, LAMBDA n : n.kind = "text")
WithRole(nodes, role) == SelectSeq(nodes, LAMBDA n : n.role = role)
WithText(nodes, text) == SelectSeq(nodes, LAMBDA n : n.kind = "text" /\ n.text = text)

\* The completed calls of one draw method.
Completed(fn) == { i \in 1..Len(log) : log[i].fn = fn /\ log[i].ok }

\* The properties of an object value, as the (name, value) pairs given.
PairsOf(value) == IF value.t = "obj" THEN value.a ELSE <<>>

RECURSIVE LongestName(_)
LongestName(pairs) ==
    IF pairs = <<>> THEN 0
    ELSE LET rest == LongestName(Tail(pairs))
             this == Measure(Head(pairs)[1])
         IN IF this > rest THEN this ELSE rest

Max3(a, b, d) == Max(Max(a, b), d)

\* C1: the outer box of every class or stack frame drawn by drawClass is
\* max(obj_min_width, longest attribute name width + 3*item_min_width,
\* measure(name) + prop_min_width + 10) wide, so never narrower than
\* obj_min_width.
C1_ClassWidthIsMaxOfThree ==
    \A i \in Completed("drawClass") :
        LET e == log[i]
        IN /\ svg[e.from].kind = "rect"
           /\ svg[e.from].w =
                Max3(Cfg.obj_min_width,
                     LongestName(PairsOf(e.item.value)) + 3 * Cfg.item_min_width,
                     Measure(e.item.name.s) + Cfg.prop_min_width + Px(10))
           /\ svg[e.from].w >= Cfg.obj_min_width

\* C2: a dict with zero key/value pairs has an outer box obj_min_width wide
\* and obj_min_height high, and no key box, value box or colon.
C2_EmptyDictIsMinimumSize ==
    \A i \in Completed("drawDict") :
        LET e == log[i]
            box == WithRole(NodesOf(e), "box")
        IN e.item.value = Obj(<<>>) =>
             /\ Len(box) = 1
             /\ box[1].w = Cfg.obj_min_width
             /\ box[1].h = Cfg.obj_min_height
             /\ WithRole(NodesOf(e), "key") = <<>>
             /\ WithRole(NodesOf(e), "value") = <<>>
             /\ WithText(NodesOf(e), ":") = <<>>

\* C3: drawProperties(id, type, x, y, width) draws an id box with left edge x
\* and a type box with right edge x + width, each prop_min_height high and
\* max(prop_min_width, measure(t) + 10) wide for the text t shown in the box:
\* "id<N>", or "" for a null id, and the type name.
C3_PropertyBoxesFitTheirText ==
    \A i \in Completed("drawProperties") :
        LET e == log[i]
            nodes == NodesOf(e)
            texts == Texts(nodes)
            rects == Rects(nodes)
            shown == IF e.item.id.t = "null" THEN "" ELSE "id" \o ToStr(e.item.id)
        IN /\ Len(texts) = 2 /\ Len(rects) = 2
           /\ texts[1].text = shown
           /\ texts[2].text = e.item.name.s
           /\ rects[1].x = Px(e.item.x)
           /\ rects[1].w = Max(Cfg.prop_min_width, Measure(texts[1].text) + Px(10))
           /\ rects[1].h = Cfg.prop_min_height
           /\ rects[2].x + rects[2].w = Px(e.item.x) + Px(e.width)
           /\ rects[2].w = Max(Cfg.prop_min_width, Measure(texts[2].text) + Px(10))
           /\ rects[2].h = Cfg.prop_min_height

\* The rectangles around the whole entity: its box and the enclosing one.
Containers(nodes) == SelectSeq(nodes, LAMBDA n : n.role \in {"box", "double"})

\* C4: a built-in entity gets a second enclosing rectangle if and only if its
\* type is one of int, str, tuple, None, bool, float, date.  Then there are
\* exactly two container rectangles, the outer one at (x - double_rect_sep,
\* y - double_rect_sep) and 2*double_rect_sep larger than the inner one in
\* width and height (list_index_sep included when indices are shown); a
\* list, set, dict or primitive of another type has exactly one.
C4_DoubleBoxIffImmutable ==
    \A i \in 1..Len(log) :
        LET e == log[i]
            boxes == Containers(NodesOf(e))
            sep == Cfg.double_rect_sep
            indexed == e.fn = "drawSequence" /\ Truthy(e.item.show_indexes)
        IN (e.ok /\ e.fn \in {"drawPrimitive", "drawSequence", "drawSet", "drawDict"}) =>
             IF e.item.name.s \in {"int", "str", "tuple", "None", "bool", "float", "date"}
             THEN /\ Len(boxes) = 2
                  /\ boxes[1].x = Px(e.item.x) /\ boxes[1].y = Px(e.item.y)
                  /\ boxes[1].h = Cfg.obj_min_height
                                    + (IF indexed THEN Cfg.list_index_sep ELSE 0)
                  /\ boxes[2].x = Px(e.item.x) - sep
                  /\ boxes[2].y = Px(e.item.y) - sep
                  /\ boxes[2].w = boxes[1].w + 2 * sep
                  /\ boxes[2].h = boxes[1].h + 2 * sep
             ELSE Len(boxes) = 1

\* C4 happens: one surface holds a tuple drawn with indices inside its two
\* rectangles and a primitive of an unrecognized type inside a single one.
C4_Witness ==
    \E i, j \in 1..Len(log) :
        /\ log[i].ok /\ log[i].fn = "drawSequence" /\ log[i].item.name = Str("tuple")
        /\ Truthy(log[i].item.show_indexes)
        /\ Len(Containers(NodesOf(log[i]))) = 2
        /\ log[j].ok /\ log[j].fn = "drawPrimitive" /\ log[j].item.name = Str("foo")
        /\ Len(Containers(NodesOf(log[j]))) = 1

\* C5: a set of n elements gets n element sub-boxes whose texts follow the
\* input order, one comma for every element after the first (n - 1 commas)
\* and none for the first, exactly one "{" and exactly one "}".
C5_SetCommasAndBraces ==
    \A i \in Completed("drawSet") :
        LET e == log[i]
            nodes == NodesOf(e)
            elems == e.item.value.a
            n == Len(elems)
            items == WithRole(Texts(nodes), "item")
            marks == SelectSeq(Texts(nodes),
                               LAMBDA t : t.role = "item" \/ t.text = ",")
        IN /\ Len(WithText(nodes, ",")) = Cardinality(2..n)
           /\ Len(WithText(nodes, "{")) = 1
           /\ Len(WithText(nodes, "}")) = 1
           /\ Len(WithRole(Rects(nodes), "item")) = n
           /\ Len(items) = n
           /\ \A k \in 1..n :
                items[k].text = (IF elems[k] = Null THEN "" ELSE "id" \o ToStr(elems[k]))
           /\ Len(marks) = n + Cardinality(2..n)
           /\ \A k \in 1..n :
                IF k = 1 THEN marks[1].role = "item"
                ELSE marks[2 * k - 2].role = "item" /\ marks[2 * k - 1].text = ","

\* C5 happens: a set of three elements was drawn with two commas.
C5_Witness ==
    \E i \in Completed("drawSet") :
        /\ Len(log[i].item.value.a) = 3
        /\ Len(WithText(NodesOf(log[i]), ",")) = 2

\* The descriptor {isClass: false, type: "bool", id: 7, value: true, x: 0, y: 0}.
BoolByType == [Item(FALSE, Undef, Num(7), Bool(TRUE)) EXCEPT !.type = Str("bool")]

\* The descriptor {isClass: false, name: "bool", id: 7, value: true, x: 0, y: 0}.
BoolByName == Item(FALSE, Str("bool"), Num(7), Bool(TRUE))

\* The texts of the value, id and type nodes of a drawn primitive.
PrimitiveTexts(e, value, id, type) ==
    LET nodes == NodesOf(e)
    IN /\ Len(WithRole(Rects(nodes), "box")) = 1
       /\ Len(WithRole(nodes, "value")) = 1
       /\ WithRole(nodes, "value")[1].text = value
       /\ Len(WithRole(Texts(nodes), "id")) = 1
       /\ WithRole(Texts(nodes), "id")[1].text = id
       /\ Len(WithRole(Texts(nodes), "type")) = 1
       /\ WithRole(Texts(nodes), "type")[1].text = type
       /\ Len(WithRole(nodes, "idbox")) = 1
       /\ Len(WithRole(nodes, "typebox")) = 1

\* C6 as claimed: drawAll of the single descriptor {isClass: false,
\* type: "bool", id: 7, value: true, x: 0, y: 0} completes without raising
\* and appends a primitive box with value text "True", an id box with text
\* "id7" and a type box with text "bool".
C6_BoolExampleByTypeField ==
    \A k \in 1..Len(calls) :
        calls[k].objects = << BoolByType >> =>
            /\ calls[k].ok
            /\ calls[k].count = 1
            /\ PrimitiveTexts(log[calls[k].first], "True", "id7", "bool")

\* C6 as amended: drawAll of the single descriptor {isClass: false,
\* name: "bool", id: 7, value: true, x: 0, y: 0} completes without raising
\* and appends a primitive box with value text "True", an id box with text
\* "id7" and a type box with text "bool"; a primitive of type "bool" shows
\* its value as "True" or "False", never as true or false.
C6_BoolExampleByNameField ==
    /\ \A k \in 1..Len(calls) :
         calls[k].objects = << BoolByName >> =>
            /\ calls[k].ok
            /\ calls[k].count = 1
            /\ PrimitiveTexts(log[calls[k].first], "True", "id7", "bool")
    /\ \A i \in Completed("drawPrimitive") :
         log[i].item.name = Str("bool") =>
            LET shown == WithRole(NodesOf(log[i]), "value")
            IN /\ \A k \in 1..Len(shown) :
                    shown[k].text = (IF log[i].item.value \in {Bool(FALSE), Num(0), Str("")}
                                     THEN "False" ELSE "True")
               /\ log[i].item.value \in {Bool(TRUE), Bool(FALSE)} => Len(shown) = 1
               /\ WithText(NodesOf(log[i]), "true") = <<>>
               /\ WithText(NodesOf(log[i]), "false") = <<>>

\* C6 happens: drawAll was called with the single name-field descriptor, and
\* a false bool was drawn as well.
C6_Witness ==
    /\ \E k \in 1..Len(calls) : calls[k].objects = << BoolByName >> /\ calls[k].ok
    /\ \E i \in Completed("drawPrimitive") :
         /\ log[i].item.name = Str("bool") /\ log[i].item.value = Bool(FALSE)
         /\ WithText(NodesOf(log[i]), "False") # <<>>

\* What C7 says of a drawn list or tuple: one sub-box per element with the
\* texts id<ref> in input order (blank for a null ref); with indices shown,
\* the labels 0..n-1, one above each sub-box, and an outer box
\* obj_min_height + list_index_sep high; without, no label and obj_min_height.
SequenceDrawn(e, shown) ==
    LET nodes == NodesOf(e)
        elems == e.item.value.a
        n == Len(elems)
        boxes == WithRole(Rects(nodes), "item")
        items == WithRole(Texts(nodes), "item")
        labels == WithRole(nodes, "index")
        outer == WithRole(nodes, "box")
    IN /\ e.ok
       /\ Len(boxes) = n /\ Len(items) = n
       /\ \A k \in 1..n :
            items[k].text = (IF elems[k] = Null THEN "" ELSE "id" \o ToStr(elems[k]))
       /\ Len(outer) = 1
       /\ IF shown
          THEN /\ Len(labels) = n
               /\ \A k \in 1..n :
                    /\ labels[k].text = NumToString(k - 1)
                    /\ labels[k].y < boxes[k].y
                    /\ labels[k].x = boxes[k].x + boxes[k].w \div 2
               /\ outer[1].h = Cfg.obj_min_height + Cfg.list_index_sep
          ELSE /\ labels = <<>>
               /\ outer[1].h = Cfg.obj_min_height

SequenceTypes == { Str("list"), Str("tuple") }

StringOf(value) == (CHOOSE v \in PrimitiveValues : v[1] = value)[2]

\* The width C8 gives the box of a primitive value.
PrimitiveWidth(value) ==
    Max(Cfg.obj_min_width, 12 * U * Len(StringOf(value)) + Cfg.obj_x_padding)

\* C8: the box of a primitive value v is obj_min_height high and
\* max(obj_min_width, measure(stringify(v)) + obj_x_padding) wide with
\* measure(s) = 12 * length(s); so it is never narrower than obj_min_width,
\* and a value with a longer string never gets a narrower box.
C8_PrimitiveBoxSize ==
    /\ \A i \in Completed("drawPrimitive") :
         LET box == svg[log[i].from]
         IN /\ box.kind = "rect"
            /\ box.h = Cfg.obj_min_height
            /\ box.w = PrimitiveWidth(log[i].item.value)
            /\ box.w >= Cfg.obj_min_width
    /\ \A i, j \in Completed("drawPrimitive") :
         Len(StringOf(log[i].item.value)) <= Len(StringOf(log[j].item.value))
            => svg[log[i].from].w <= svg[log[j].from].w

\* C8 happens: two primitives were drawn on one surface, one at the minimum
\* width and one, with a longer string, wider than the minimum.
C8_Witness ==
    \E i, j \in Completed("drawPrimitive") :
        /\ Len(StringOf(log[i].item.value)) < Len(StringOf(log[j].item.value))
        /\ svg[log[i].from].w = Cfg.obj_min_width
        /\ svg[log[j].from].w > Cfg.obj_min_width

\* C10: a primitive whose value is null or undefined gets no value text node,
\* only its rectangles and the id and type nodes, whatever its type; a
\* primitive whose value is false, 0 or the empty string gets one.
C10_NoTextForAbsentValue ==
    \A i \in Completed("drawPrimitive") :
        LET nodes == NodesOf(log[i])
            value == log[i].item.value
        IN IF value \in {Null, Undef}
           THEN /\ Len(Texts(nodes)) = 2
                /\ WithRole(nodes, "value") = <<>>
                /\ Texts(nodes)[1].role = "id" /\ Texts(nodes)[2].role = "type"
           ELSE /\ Len(Texts(nodes)) = 3
                /\ Len(WithRole(nodes, "value")) = 1

\* C10 happens: on one surface a bool with value null was drawn without a
\* value text and a primitive with the value false, 0 or "" with one.
C10_Witness ==
    \E i, j \in Completed("drawPrimitive") :
        /\ log[i].item.name = Str("bool") /\ log[i].item.value = Null
        /\ Len(Texts(NodesOf(log[i]))) = 2
        /\ log[j].item.value \in {Bool(FALSE), Num(0), Str("")}
        /\ Len(WithRole(NodesOf(log[j]), "value")) = 1

\* The draw method C9 names for a descriptor.
NamedRenderer(d) ==
    IF d.isClass = Bool(TRUE) THEN "drawClass"
    ELSE IF d.name = Str("dict") THEN "drawDict"
    ELSE IF d.name = Str("set") THEN "drawSet"
    ELSE IF d.name \in {Str("list"), Str("tuple")} THEN "drawSequence"
    ELSE "drawPrimitive"

RolesOf(nodes) == { nodes[k].role : k \in 1..Len(nodes) }

PropertyRoles == {"id", "type", "idbox", "typebox"}

\* The kinds of node each draw method appends.
RolesDrawnBy(fn) ==
    CASE fn = "drawClass" -> {"box", "attr", "attrname", "namebox", "name"}
      [] fn = "drawDict" -> {"box", "key", "colon", "value"}
      [] fn = "drawSet" -> {"box", "item", "comma", "brace"}
      [] fn = "drawSequence" -> {"box", "double", "item", "index"}
      [] fn = "drawPrimitive" -> {"box", "double", "value"}

\* The nodes of a completed entry are those of its descriptor: of the kinds
\* its draw method appends, one box at the descriptor's place, one sub-box
\* per element, pair or attribute, and the descriptor's id and type texts
\* (or, for a stack frame, its name).
DrawnAs(e) ==
    LET nodes == NodesOf(e)
        d == e.item
        box == WithRole(nodes, "box")
        size == IF d.value.t \in {"arr", "obj"} THEN Len(d.value.a) ELSE 0
        rows == CASE e.fn = "drawClass" -> WithRole(Rects(nodes), "attr")
                  [] e.fn = "drawDict" -> WithRole(Rects(nodes), "key")
                  [] e.fn \in {"drawSet", "drawSequence"} -> WithRole(Rects(nodes), "item")
                  [] OTHER -> <<>>
    IN /\ RolesOf(nodes) \subseteq RolesDrawnBy(e.fn) \cup PropertyRoles
       /\ e.fn = "drawSet" => Len(WithRole(nodes, "brace")) = 2
       /\ Len(box) = 1 /\ box[1].x = Px(d.x) /\ box[1].y = Px(d.y)
       /\ e.fn # "drawPrimitive" => Len(rows) = size
       /\ IF e.fn = "drawClass" /\ Truthy(d.stack_frame)
          THEN /\ Len(WithRole(Texts(nodes), "name")) = 1
               /\ WithRole(Texts(nodes), "name")[1].text = d.name.s
          ELSE /\ Len(WithRole(Texts(nodes), "type")) = 1
               /\ WithRole(Texts(nodes), "type")[1].text = d.name.s
               /\ Len(WithRole(Texts(nodes), "id")) = 1
               /\ WithRole(Texts(nodes), "id")[1].text
                    = (IF d.id = Null THEN "" ELSE "id" \o ToStr(d.id))

\* C9: drawAll visits the descriptors once each in input order, the nodes of
\* descriptor i all before those of descriptor i+1; a descriptor with isClass
\* true goes to the class renderer whatever its name, every other one to
\* dict, set, list/tuple or primitive by its type, and a type outside the
\* collection vocabulary is drawn as a primitive without raising.
C9_DrawAllOrderAndDispatch ==
    /\ \A k \in 1..Len(calls) :
         LET cl == calls[k]
         IN /\ cl.ok => cl.count = Len(cl.objects)
            /\ cl.count >= 1 /\ cl.count <= Len(cl.objects)
            /\ \A p \in 1..cl.count :
                 LET e == log[cl.first + p - 1]
                     d == cl.objects[p]
                 IN /\ e.item = d
                    /\ e.fn = NamedRenderer(d)
                    /\ e.ok = (cl.ok \/ p < cl.count)
                    /\ e.ok => DrawnAs(e)
                    /\ (d.isClass = Bool(FALSE) /\ d.name.t = "str"
                          /\ d.name.s \notin {"dict", "set", "list", "tuple"})
                       => (e.ok /\ e.fn = "drawPrimitive")
    /\ \A i \in 1..Len(log) :
         /\ log[i].from = (IF i = 1 THEN 1 ELSE log[i - 1].to + 1)
         /\ i = Len(log) => log[i].to = Len(svg)

\* C9 happens: one drawAll call drew a class named "list" with the class
\* renderer and then, elsewhere, a value of the unrecognized type "foo" as a
\* primitive.
C9_Witness ==
    \E k \in 1..Len(calls) :
        /\ calls[k].ok /\ calls[k].count = 2
        /\ calls[k].objects[1].isClass = Bool(TRUE)
        /\ calls[k].objects[1].name = Str("list")
        /\ log[calls[k].first].fn = "drawClass"
        /\ calls[k].objects[2].name = Str("foo")
        /\ log[calls[k].first + 1].fn = "drawPrimitive"
        /\ log[calls[k].first + 1].from > log[calls[k].first].to

\* Count of the nodes of one role among the nodes of log entry e.
CountRole(e, role) == Len(WithRole(NodesOf(e), role))

\* The descriptor d without its stack-frame flag.
Unflagged(d) == [d EXCEPT !.stack_frame = Undef]

C13_SurfaceOnlyGrows ==
    [][/\ Len(svg') >= Len(svg)
       /\ SubSeq(svg', 1, Len(svg)) = svg
       /\ Len(calls') > Len(calls) =>
             svg' = svg \o DrawAll(Scaled(config), calls'[Len(calls')].objects, 0).nodes]_vars

\* C13 happens: two drawAll calls in a row have both appended nodes, those
\* of the second after those of the first.
C13_Witness ==
    /\ Len(calls) = 2 /\ pending = <<>>
    /\ calls[1].count >= 1 /\ calls[2].count >= 1
    /\ log[calls[1].first].from = 1
    /\ log[calls[1].first].to >= 1
    /\ log[calls[2].first].from = log[calls[2].first - 1].to + 1
    /\ log[Len(log)].to = Len(svg)
    /\ Len(svg) > log[calls[2].first].from

\* The steps of save and of the callback of its write: those that change
\* the files, the writes in flight or the console.
SaveOrCallback == fs' # fs \/ console' # console

\* C14: save(path) issues its write and returns without waiting for it: the
\* write is in flight when save has returned, save raises nothing, and the
\* callback runs at any later point, between or after the draw calls that
\* follow.  Neither save nor the callback changes the nodes of the surface,
\* whether the write succeeds or fails; a failed write leaves one message on
\* the error console and nothing else: nothing is raised into the caller,
\* the caller's remaining calls are as they were, and the write is gone from
\* the writes in flight, not issued again.
C14_SaveFireAndForget ==
    [][SaveOrCallback =>
          /\ svg' = svg /\ log' = log /\ calls' = calls /\ config' = config
          /\ IF pending' # pending
             THEN /\ Head(pending).fn = "save"
                  /\ ~raised'
                  /\ fs'.files = fs.files
                  /\ IF Head(pending).path = Undef
                     THEN fs'.writes = fs.writes
                     ELSE /\ fs'.writes =
                               Append(fs.writes, [path |-> Head(pending).path.s,
                                                  data |-> File("svg", svg)])
                          /\ console' = console
             ELSE /\ raised' = raised
                  /\ Len(fs'.writes) = Len(fs.writes) - 1
                  /\ \/ console' = console
                     \/ /\ Len(console') = Len(console) + 1
                        /\ SubSeq(console', 1, Len(console)) = console
                        /\ console'[Len(console')].stream = "error"
                        /\ fs'.files = fs.files]_vars

\* C14 happens: save has returned, a later draw call has appended nodes to
\* the surface, and the write of the earlier markup is still in flight.
C14_Witness ==
    /\ pending = <<>>
    /\ ~raised
    /\ \E i \in 1..Len(fs.writes) :
         /\ fs.writes[i].data.format = "svg"
         /\ Len(fs.writes[i].data.doc) < Len(svg)
         /\ fs.writes[i].data.doc = SubSeq(svg, 1, Len(fs.writes[i].data.doc))

\* C15: the configuration of a model constructed with an options object has
\* exactly the keys of the default config, each with the caller's value when
\* the options object has that key and with the default otherwise (a key of
\* the options object that the default config lacks gives no field), and no
\* later draw, save or createFromJSON call, nor the completion of a write,
\* changes it.
C15_ConfigFixedAtConstruction ==
    /\ [](/\ DOMAIN config = DOMAIN DefaultConfig
          /\ \A key \in DOMAIN DefaultConfig :
                config[key] = IF key \in DOMAIN options THEN options[key]
                              ELSE DefaultConfig[key])
    /\ [][config' = config /\ options' = options]_vars

\* C15 happens: a model constructed with two recognized options and an
\* unrecognized one has drawn and saved, and its configuration holds the two
\* values given, the defaults for the rest, and no field for the third.
C15_Witness ==
    /\ DOMAIN options = {"obj_min_width", "obj_min_height", "bogus"}
    /\ config.obj_min_width = 100 /\ config.obj_min_width # DefaultConfig.obj_min_width
    /\ config.obj_min_height = 60
    /\ config.font_size = DefaultConfig.font_size
    /\ "bogus" \notin DOMAIN config
    /\ pending = <<>> /\ Len(svg) > 0
    /\ Len(fs.writes) + Len(console) > 0

\* What C16 says of a drawn dict whose pairs are `pairs`, in this order: one
\* key sub-box, one colon and one value sub-box per pair, with the texts of
\* the pairs in this order, the two sub-boxes of a pair at the same height,
\* the first row at y + prop_min_height + item_min_height/2 and each next
\* row 1.5*item_min_height lower.
DictRows(e, pairs) ==
    LET nodes == NodesOf(e)
        k == Len(pairs)
        keys == WithRole(Rects(nodes), "key")
        values == WithRole(Rects(nodes), "value")
        key_texts == WithRole(Texts(nodes), "key")
        value_texts == WithRole(Texts(nodes), "value")
    IN /\ Len(keys) = k /\ Len(values) = k
       /\ Len(key_texts) = k /\ Len(value_texts) = k
       /\ Len(WithRole(nodes, "colon")) = k
       /\ \A i \in 1..k :
            /\ WithRole(nodes, "colon")[i].text = ":"
            /\ key_texts[i].text = "id" \o pairs[i][1]
            /\ value_texts[i].text
                 = (IF pairs[i][2] = Null THEN "" ELSE "id" \o ToStr(pairs[i][2]))
            /\ keys[i].y = values[i].y
            /\ keys[i].y = Px(e.item.y) + Cfg.prop_min_height
                             + Cfg.item_min_height \div 2
                             + (i - 1) * ((3 * Cfg.item_min_height) \div 2)

\* C16: a dict with k key/value pairs is drawn with k key sub-boxes, k colons
\* and k value sub-boxes, showing the pairs in the order the input gives
\* them; the key box and the value box of a pair have the same top edge, the
\* first at y + prop_min_height + item_min_height/2 and each following one
\* 1.5*item_min_height below the one before.
C16_DictRowsInInputOrder ==
    \A i \in Completed("drawDict") :
        log[i].item.value.t = "obj" => DictRows(log[i], log[i].item.value.a)

\* A descriptor whose value has not the shape its kind needs: no mapping for
\* a dict or a class, no array for a list, tuple or set.
WrongShape(d) ==
    IF d.isClass = Bool(TRUE) \/ d.name = Str("dict") THEN d.value.t # "obj"
    ELSE IF d.name \in {Str("list"), Str("tuple"), Str("set")} THEN d.value.t # "arr"
    ELSE FALSE

\* C17: a descriptor whose value has the wrong shape (null or a number where
\* the mapping of a dict or of a class is expected, no array where a list,
\* tuple or set is expected) makes drawAll raise at that descriptor: the
\* call does not return normally, no descriptor after it is drawn, and the
\* nodes of the descriptors before it stay on the surface.
C17_WrongShapeAborts ==
    \A k \in 1..Len(calls) :
        LET cl == calls[k]
        IN \A p \in 1..Len(cl.objects) :
             WrongShape(cl.objects[p]) =>
                /\ ~cl.ok
                /\ cl.count <= p
                /\ cl.count = p => ~log[cl.first + p - 1].ok
                /\ \A q \in 1..(cl.count - 1) :
                     /\ log[cl.first + q - 1].ok
                     /\ log[cl.first + q - 1].to <= Len(svg)
                     /\ DrawnAs(log[cl.first + q - 1])

\* C18: under the default configuration, in every row of every drawn dict
\* the key sub-box ends at or left of the start of the value sub-box, and
\* the value sub-box ends at or left of the right edge of the outer box,
\* however long the key and the value id are.
C18_DictRowFitsBox ==
    config = DefaultConfig =>
      \A i \in Completed("drawDict") :
          LET nodes == NodesOf(log[i])
              keys == WithRole(Rects(nodes), "key")
              values == WithRole(Rects(nodes), "value")
              box == WithRole(nodes, "box")
          IN \A r \in 1..Len(keys) :
               /\ keys[r].x + keys[r].w <= values[r].x
               /\ values[r].x + values[r].w <= box[1].x + box[1].w

\* C19: under the default configuration, the id sub-box of every attribute
\* of a drawn class or stack frame with at least one attribute lies inside
\* the outer box: its right edge is at most x + box_width, however long the
\* referenced id, and the bottom edge of the last row is at most
\* y + box_height.
C19_AttributeBoxesInsideClass ==
    config = DefaultConfig =>
      \A i \in Completed("drawClass") :
          LET nodes == NodesOf(log[i])
              attrs == WithRole(Rects(nodes), "attr")
              box == WithRole(nodes, "box")
          IN \A r \in 1..Len(attrs) :
               /\ attrs[r].x + attrs[r].w <= box[1].x + box[1].w
               /\ attrs[r].y + attrs[r].h <= box[1].y + box[1].h

\* C20: the outer box of a drawn set is at least obj_min_width wide, for
\* every number of elements, the empty set included.
C20_SetNeverNarrowerThanMinimum ==
    \A i \in Completed("drawSet") :
        LET box == WithRole(NodesOf(log[i]), "box")
        IN Len(box) = 1 /\ box[1].w >= Cfg.obj_min_width

\* C21: under the default configuration, the id box and the type box of
\* every entity drawn with the id/type pair lie within the entity's outer
\* box and do not overlap: the id box starts at the left edge of the outer
\* box, the type box ends at its right edge, and the widths of the two sum
\* to at most the width of the outer box, whatever the id and the type or
\* class name.
C21_PropertyBoxesInsideBox ==
    config = DefaultConfig =>
      \A i \in 1..Len(log) :
          LET nodes == NodesOf(log[i])
              box == WithRole(nodes, "box")
              id_box == WithRole(nodes, "idbox")
              type_box == WithRole(nodes, "typebox")
          IN (log[i].ok /\ Len(id_box) = 1 /\ Len(type_box) = 1) =>
               /\ Len(box) = 1
               /\ id_box[1].x >= box[1].x
               /\ type_box[1].x + type_box[1].w <= box[1].x + box[1].w
               /\ id_box[1].x + id_box[1].w <= type_box[1].x
               /\ id_box[1].w + type_box[1].w <= box[1].w

\* C22: under the default configuration, the element sub-boxes of every
\* drawn list, tuple or set stand left to right in input order, each
\* starting at or right of the right edge of the one before, the first
\* starting at or right of x and the last ending at or left of
\* x + box_width, whatever the referenced ids.
C22_ElementBoxesInsideBox ==
    config = DefaultConfig =>
      \A i \in Completed("drawSequence") \cup Completed("drawSet") :
          LET nodes == NodesOf(log[i])
              elems == log[i].item.value.a
              n == Len(elems)
              items == WithRole(Rects(nodes), "item")
              texts == WithRole(Texts(nodes), "item")
              box == WithRole(nodes, "box")
          IN /\ Len(items) = n /\ Len(texts) = n /\ Len(box) = 1
             /\ box[1].x = Px(log[i].item.x)
             /\ \A k \in 1..n :
                  /\ texts[k].text
                       = (IF elems[k] = Null THEN "" ELSE "id" \o ToStr(elems[k]))
                  /\ items[k].x <= texts[k].x /\ texts[k].x <= items[k].x + items[k].w
                  /\ k > 1 => items[k - 1].x + items[k - 1].w <= items[k].x
                  /\ items[k].x >= box[1].x
                  /\ items[k].x + items[k].w <= box[1].x + box[1].w

\* C22 happens: under the default configuration a list, tuple or set of
\* three elements with a six-digit id among them was drawn, its sub-boxes
\* wider than the minimum box together and inside an outer box that grew
\* with them.
C22_Witness ==
    /\ config = DefaultConfig
    /\ \E i \in Completed("drawSequence") \cup Completed("drawSet") :
         LET items == WithRole(Rects(NodesOf(log[i])), "item")
             box == WithRole(NodesOf(log[i]), "box")
         IN /\ Len(items) = 3
            /\ \E k \in 1..3 : log[i].item.value.a[k] = Num(123456)
                                 /\ items[k].w > Cfg.item_min_width
            /\ box[1].w > Cfg.obj_min_width
            /\ items[3].x + items[3].w > box[1].x + Cfg.obj_min_width

====
